---- MODULE Spec2Model ----
(***************************************************************************)
(* Model of amaranth/lib/data.py: Field, the Layout contract and its four  *)
(* variants (StructLayout, UnionLayout, ArrayLayout, FlexibleLayout), and  *)
(* View.  Python objects are records tagged by a field k (their class);    *)
(* a dict is the sequence of its (key, value) items in insertion order;    *)
(* a call's outcome is a record whose field exc names the exception raised *)
(* ("" when the call returns).                                             *)
(***************************************************************************)
EXTENDS Integers, Sequences, FiniteSets, TLC

VARIABLES lay, op

vars == <<lay, op>>

(* ------------------------------ bounds --------------------------------- *)

MaxWidth == 2

MaxSize == 3

MaxLength == 2

(* ------------------------- Python values -------------------------------- *)

\* dict keys and index arguments: a str (the sequence of its characters), an
\* int, a Value (a dynamic index), or an object of another type
StrKey(s) == [t |-> "str", s |-> s, i |-> 0]

IntKey(i) == [t |-> "int", s |-> <<>>, i |-> i]

ValueKey == [t |-> "value", s |-> <<>>, i |-> 0]

OtherKey == [t |-> "other", s |-> <<>>, i |-> 0]

\* an argument that should be an int
PyInt(i) == [t |-> "int", i |-> i]

PyOther == [t |-> "other", i |-> 0]

\* an argument that should be a Mapping, given by its items() in order
Mapping(items) == [mapping |-> TRUE, items |-> items]

NotMapping == [mapping |-> FALSE, items |-> <<>>]

Item(key, val) == [key |-> key, val |-> val]

Ok(v) == [exc |-> "", val |-> v]

Raise(e) == [exc |-> e, val |-> <<>>]

\* Shape objects
unsigned(w) == [k |-> "shape", width |-> w, signed |-> FALSE]

signed(w) == [k |-> "shape", width |-> w, signed |-> TRUE]

\* an object that is not shape-castable (a str, None, ...)
NotCastable == [k |-> "object"]

\* an object that is not a Field
NotField == [k |-> "object"]

\* no object (a failed construction binds nothing)
NoObject == [k |-> "none"]

IsShape(obj) == obj.k = "shape"

IsLayout(obj) == obj.k \in {"struct", "union", "array", "flex"}

IsAggregateMeta(obj) == obj.k = "aggregate"

IsShapeCastable(obj) == IsLayout(obj) \/ IsAggregateMeta(obj) \/ obj.k = "wrapper"

IsField(obj) == obj.k = "field"

(* ----------------------------- dict ------------------------------------- *)

Keys(items) == {items[i].key : i \in 1..Len(items)}

\* d[key] = val: an existing key keeps its position, a new key is appended
DictSet(items, key, val) ==
    IF key \in Keys(items)
    THEN [i \in 1..Len(items) |->
            IF items[i].key = key THEN Item(key, val) ELSE items[i]]
    ELSE Append(items, Item(key, val))

\* d[key], for a key of d
DictGet(items, key) == items[CHOOSE i \in 1..Len(items) : items[i].key = key].val

SetMax(S) == CHOOSE x \in S : \A y \in S : y <= x

(* ------------------- Shape.cast, Layout.size, Field --------------------- *)

RECURSIVE Shape_cast(_), Layout_size(_)

\* obj.width: only Shape instances have the attribute
HasWidthAttr(obj) == IsShape(obj)

\* Field.width
Field_width(field) == Shape_cast(field.shape).val.width

\* unsigned(size), or the exception that size raised
Layout_as_shape_of(s) == IF s.exc = "" THEN Ok(unsigned(s.val)) ELSE s

\* Layout.as_shape
Layout_as_shape(self) == Layout_as_shape_of(Layout_size(self))

\* Shape.cast of the hdl package: a Shape is returned as it is, a
\* shape-castable object is unwrapped through as_shape(), anything else is
\* a TypeError
Shape_cast(obj) ==
    IF IsShape(obj) THEN Ok(obj)
    ELSE IF IsLayout(obj) THEN Layout_as_shape(obj)
    ELSE IF IsAggregateMeta(obj) THEN Shape_cast(obj.layout)
    ELSE Raise("TypeError")

FieldEnd(field) == field.offset + Field_width(field)

\* StructLayout.size
StructLayout_size(self) ==
    IF Len(self.fields) = 0 THEN 0
    ELSE SetMax({FieldEnd(self.fields[i].val) : i \in 1..Len(self.fields)})

\* UnionLayout.size
UnionLayout_size(self) ==
    IF Len(self.fields) = 0 THEN 0
    ELSE SetMax({Field_width(self.fields[i].val) : i \in 1..Len(self.fields)})

\* ArrayLayout.size
ArrayLayout_size(self) ==
    IF HasWidthAttr(self.elem) THEN Ok(self.elem.width * self.length)
    ELSE Raise("AttributeError")

\* layout.size
Layout_size(self) ==
    CASE self.k = "struct" -> Ok(StructLayout_size(self))
      [] self.k = "union"  -> Ok(UnionLayout_size(self))
      [] self.k = "array"  -> ArrayLayout_size(self)
      [] self.k = "flex"   -> Ok(self.size)

\* Field(shape, offset), c being Shape.cast(shape): the shape setter, then
\* the offset setter
Field_init_cast(shape, offset, c) ==
    IF c.exc # "" THEN Raise(c.exc)
    ELSE IF offset.t # "int" \/ offset.i < 0 THEN Raise("TypeError")
    ELSE Ok([k |-> "field", shape |-> shape, offset |-> offset.i])

Field_init(shape, offset) == Field_init_cast(shape, offset, Shape_cast(shape))

\* Field(shape, offset) of a shape-castable shape and an offset >= 0
Field(shape, offset) == [k |-> "field", shape |-> shape, offset |-> offset]

(* --------------------------- StructLayout ------------------------------- *)

RECURSIVE StructLayout_members_loop(_, _, _, _)

\* the loop body with the offset left where it was
StructLayout_members_body_fixed_offset(items, i, fields, offset, c) ==
    IF items[i].key.t # "str" THEN [exc |-> "TypeError", fields |-> fields]
    ELSE IF c.exc # "" THEN [exc |-> c.exc, fields |-> fields]
    ELSE StructLayout_members_loop(items, i + 1,
             DictSet(fields, items[i].key, Field(items[i].val, offset)),
             offset)

\* the body of the for loop of the members setter for item i, c being
\* Shape.cast(shape)
StructLayout_members_body(items, i, fields, offset, c) ==
    IF items[i].key.t # "str" THEN [exc |-> "TypeError", fields |-> fields]
    ELSE IF c.exc # "" THEN [exc |-> c.exc, fields |-> fields]
    ELSE StructLayout_members_loop(items, i + 1,
             DictSet(fields, items[i].key, Field(items[i].val, offset)),
             offset + c.val.width)

\* the for loop of the members setter, from item i on
StructLayout_members_loop(items, i, fields, offset) ==
    IF i > Len(items) THEN [exc |-> "", fields |-> fields]
    ELSE StructLayout_members_body(items, i, fields, offset, Shape_cast(items[i].val))

\* the object as the loop leaves it
Struct_of(r) == [exc |-> r.exc, lay |-> [k |-> "struct", fields |-> r.fields]]

\* StructLayout.members = members
StructLayout_members_setter(self, members) ==
    IF ~members.mapping
    THEN Struct_of([exc |-> "TypeError", fields |-> <<>>])
    ELSE Struct_of(StructLayout_members_loop(members.items, 1, <<>>, 0))

\* StructLayout(members)
StructLayout(members) == StructLayout_members_setter([k |-> "struct"], members)

(* ---------------------------- UnionLayout ------------------------------- *)

RECURSIVE UnionLayout_members_loop(_, _, _)

UnionLayout_members_body(items, i, fields, c) ==
    IF items[i].key.t # "str" THEN [exc |-> "TypeError", fields |-> fields]
    ELSE IF c.exc # "" THEN [exc |-> c.exc, fields |-> fields]
    ELSE UnionLayout_members_loop(items, i + 1,
             DictSet(fields, items[i].key, Field(items[i].val, 0)))

\* the for loop of the members setter, from item i on
UnionLayout_members_loop(items, i, fields) ==
    IF i > Len(items) THEN [exc |-> "", fields |-> fields]
    ELSE UnionLayout_members_body(items, i, fields, Shape_cast(items[i].val))

Union_of(r) == [exc |-> r.exc, lay |-> [k |-> "union", fields |-> r.fields]]

\* UnionLayout.members = members
UnionLayout_members_setter(self, members) ==
    IF ~members.mapping
    THEN Union_of([exc |-> "TypeError", fields |-> <<>>])
    ELSE Union_of(UnionLayout_members_loop(members.items, 1, <<>>))

\* UnionLayout(members)
UnionLayout(members) == UnionLayout_members_setter([k |-> "union"], members)

(* --------------------------- FlexibleLayout ----------------------------- *)

\* the position of the first item whose field ends at bit top
FirstEndingAt(fields, top) ==
    CHOOSE i \in 1..Len(fields) :
        /\ FieldEnd(fields[i].val) = top
        /\ \A j \in 1..(i - 1) : FieldEnd(fields[j].val) # top

\* max(self._fields.items(), key=...): the first item of the largest end
Endmost(fields) ==
    fields[FirstEndingAt(fields,
                         SetMax({FieldEnd(fields[i].val) : i \in 1..Len(fields)}))]

\* the size setter without its check of the endmost field
FlexibleLayout_size_unchecked(self, size, endmost) ==
    [exc |-> "", lay |-> [self EXCEPT !.size = size.i], name |-> OtherKey]

\* the size setter once size is known to be an int >= 0 and _fields is not
\* empty, endmost being its endmost item
FlexibleLayout_size_covers(self, size, endmost) ==
    IF FieldEnd(endmost.val) > size.i
    THEN [exc |-> "ValueError", lay |-> self, name |-> endmost.key]
    ELSE [exc |-> "", lay |-> [self EXCEPT !.size = size.i], name |-> OtherKey]

\* FlexibleLayout.size = size
FlexibleLayout_size_setter(self, size) ==
    IF size.t # "int" \/ size.i < 0
    THEN [exc |-> "TypeError", lay |-> self, name |-> OtherKey]
    ELSE IF Len(self.fields) > 0
    THEN FlexibleLayout_size_covers(self, size, Endmost(self.fields))
    ELSE [exc |-> "", lay |-> [self EXCEPT !.size = size.i], name |-> OtherKey]

RECURSIVE FlexibleLayout_fields_loop(_, _, _, _)

\* the for loop of the fields setter, from item i on
FlexibleLayout_fields_loop(items, i, fields, size) ==
    IF i > Len(items) THEN [exc |-> "", fields |-> fields, name |-> OtherKey]
    ELSE IF ~(items[i].key.t \in {"int", "str"})
            \/ (items[i].key.t = "int" /\ items[i].key.i < 0)
    THEN [exc |-> "TypeError", fields |-> fields, name |-> items[i].key]
    ELSE IF ~IsField(items[i].val)
    THEN [exc |-> "TypeError", fields |-> fields, name |-> items[i].key]
    ELSE IF FieldEnd(items[i].val) > size
    THEN [exc |-> "ValueError", fields |-> fields, name |-> items[i].key]
    ELSE FlexibleLayout_fields_loop(items, i + 1,
             DictSet(fields, items[i].key, items[i].val), size)

\* the object as the loop leaves it
Flexible_of(self, r) ==
    [exc |-> r.exc, lay |-> [self EXCEPT !.fields = r.fields], name |-> r.name]

\* FlexibleLayout.fields = fields
FlexibleLayout_fields_setter(self, fields) ==
    IF ~fields.mapping
    THEN Flexible_of(self, [exc |-> "TypeError", fields |-> <<>>, name |-> OtherKey])
    ELSE Flexible_of(self, FlexibleLayout_fields_loop(fields.items, 1, <<>>, self.size))

\* FlexibleLayout.__init__ after self.size = size, s being its outcome
FlexibleLayout_init_fields(s, fields) ==
    IF s.exc # "" THEN s ELSE FlexibleLayout_fields_setter(s.lay, fields)

\* FlexibleLayout(size, fields): the object has no _fields when size is set
FlexibleLayout(size, fields) ==
    FlexibleLayout_init_fields(
        FlexibleLayout_size_setter([k |-> "flex", size |-> 0, fields |-> <<>>], size),
        fields)

(* ---------------------------- ArrayLayout ------------------------------- *)

\* ArrayLayout(elem_shape, length), c being Shape.cast(elem_shape): the
\* elem_shape setter, then the length setter
ArrayLayout_init_cast(elem_shape, length, c) ==
    IF c.exc # "" THEN [exc |-> c.exc, lay |-> NoObject]
    ELSE IF length.t # "int" \/ length.i < 0 THEN [exc |-> "TypeError", lay |-> NoObject]
    ELSE [exc |-> "", lay |-> [k |-> "array", elem |-> elem_shape, length |-> length.i]]

ArrayLayout(elem_shape, length) ==
    ArrayLayout_init_cast(elem_shape, length, Shape_cast(elem_shape))

\* ArrayLayout.__iter__, consumed to its end: the items it yields
ArrayLayout_iter(self) ==
    IF self.length = 0 THEN Ok(<<>>)
    ELSE IF ~HasWidthAttr(self.elem) THEN Raise("AttributeError")
    ELSE Ok([i \in 1..self.length |->
                Item(IntKey(i - 1), Field(self.elem, (i - 1) * self.elem.width))])

\* ArrayLayout.__getitem__
ArrayLayout_getitem(self, key) ==
    IF key.t = "int"
    THEN IF ~(key.i \in (0 - self.length)..(self.length - 1)) THEN Raise("KeyError")
         ELSE IF ~HasWidthAttr(self.elem) THEN Raise("AttributeError")
         ELSE Ok(Field(self.elem,
                       (IF key.i < 0 THEN key.i + self.length ELSE key.i) * self.elem.width))
    ELSE Raise("TypeError")

(* ------------------------- the Layout contract -------------------------- *)

\* StructLayout.__getitem__, UnionLayout.__getitem__
Members_getitem(self, key) ==
    IF key \in Keys(self.fields) THEN Ok(DictGet(self.fields, key)) ELSE Raise("KeyError")

\* FlexibleLayout.__getitem__
FlexibleLayout_getitem(self, key) ==
    IF key.t \in {"int", "str"}
    THEN IF key \in Keys(self.fields) THEN Ok(DictGet(self.fields, key))
         ELSE Raise("KeyError")
    ELSE Raise("TypeError")

\* layout[key]
Layout_getitem(self, key) ==
    CASE self.k \in {"struct", "union"} -> Members_getitem(self, key)
      [] self.k = "array" -> ArrayLayout_getitem(self, key)
      [] self.k = "flex"  -> FlexibleLayout_getitem(self, key)

\* iter(layout), consumed to its end
Layout_iter(self) ==
    IF self.k = "array" THEN ArrayLayout_iter(self) ELSE Ok(self.fields)

\* the shape-castable classes a caller defines, which are not layouts
Wrapper(id) == [k |-> "wrapper", id |-> id]

\* their as_shape(): 1 wraps a layout, 2 wraps 1, 3 wraps a plain Shape, 4
\* and 5 return each other, 6 returns itself
Wrapper_as_shape(obj) ==
    CASE obj.id = 1 -> [k |-> "struct",
                        fields |-> <<Item(StrKey(<<"a">>), Field(unsigned(1), 0))>>]
      [] obj.id = 2 -> Wrapper(1)
      [] obj.id = 3 -> unsigned(2)
      [] obj.id = 4 -> Wrapper(5)
      [] obj.id = 5 -> Wrapper(4)
      [] obj.id = 6 -> Wrapper(6)

\* a Struct or Union subclass: _AggregateMeta.__new__ builds its layout once
Aggregate(id, layout) == [k |-> "aggregate", id |-> id, layout |-> layout]

\* obj.as_shape() of a shape-castable that is not a Layout
as_shape(obj) ==
    IF IsAggregateMeta(obj) THEN obj.layout ELSE Wrapper_as_shape(obj)

\* the end of a pass of an unwrapping loop, new_obj being obj.as_shape()
Unwrapped(obj, new_obj) ==
    IF new_obj = obj THEN [pc |-> "done", obj |-> obj]
    ELSE [pc |-> "loop", obj |-> new_obj]

\* one pass of the while loop of Layout.cast on obj; pc is "return" when it
\* returns obj, "done" when the loop ends without a layout
Layout_cast_step(obj) ==
    IF IsShapeCastable(obj)
    THEN IF IsLayout(obj) THEN [pc |-> "return", obj |-> obj]
         ELSE Unwrapped(obj, as_shape(obj))
    ELSE [pc |-> "done", obj |-> obj]

\* what Layout.cast does after a pass n of its loop that ends it: it returns
\* the layout, or calls Shape.cast and raises TypeError
Layout_cast_end(n) ==
    IF n.pc = "return" THEN Ok(n.obj) ELSE Raise("TypeError")

RECURSIVE Layout_cast(_)

Layout_cast_next(n) ==
    IF n.pc = "loop" THEN Layout_cast(n.obj) ELSE Layout_cast_end(n)

\* Layout.cast(obj), when its loop ends
Layout_cast(obj) == Layout_cast_next(Layout_cast_step(obj))

\* one pass of the while loop of Layout.__eq__ on other
Layout_eq_step(other) ==
    IF IsShapeCastable(other) /\ ~IsLayout(other)
    THEN Unwrapped(other, as_shape(other))
    ELSE [pc |-> "done", obj |-> other]

RECURSIVE Layout_eq(_, _)

\* a == b of two objects held as the shapes of two fields: a Layout compares
\* with Layout.__eq__ (also reflected), Shapes compare by width and
\* signedness, classes by identity
Shape_eq(a, b) ==
    IF IsLayout(a) THEN Layout_eq(a, b).val
    ELSE IF IsLayout(b) THEN Layout_eq(b, a).val
    ELSE a = b

\* Field.__eq__ comparing the shapes alone
Field_eq_shape_only(self, other) ==
    /\ IsField(other)
    /\ Shape_eq(self.shape, other.shape)

\* Field.__eq__
Field_eq(self, other) ==
    /\ IsField(other)
    /\ Shape_eq(self.shape, other.shape)
    /\ self.offset = other.offset

\* d1 == d2 of two dicts of fields
Dict_eq(d1, d2) ==
    /\ Keys(d1) = Keys(d2)
    /\ \A key \in Keys(d1) : Field_eq(DictGet(d1, key), DictGet(d2, key))

\* dict(iter(self)) == dict(iter(other)), i1 and i2 being the two iterations
Layout_eq_dicts(i1, i2) ==
    IF i1.exc # "" THEN Raise(i1.exc)
    ELSE IF i2.exc # "" THEN Raise(i2.exc)
    ELSE Ok(Dict_eq(i1.val, i2.val))

\* self.size == other.size and ..., s1 and s2 being the two sizes
Layout_eq_sizes(self, other, s1, s2) ==
    IF s1.exc # "" THEN Raise(s1.exc)
    ELSE IF s2.exc # "" THEN Raise(s2.exc)
    ELSE IF s1.val # s2.val THEN Ok(FALSE)
    ELSE Layout_eq_dicts(Layout_iter(self), Layout_iter(other))

\* the return expression of Layout.__eq__, evaluated left to right
Layout_eq_return(self, other) ==
    IF ~IsLayout(other) THEN Ok(FALSE)
    ELSE Layout_eq_sizes(self, other, Layout_size(self), Layout_size(other))

Layout_eq_next(self, n) ==
    IF n.pc = "loop" THEN Layout_eq(self, n.obj) ELSE Layout_eq_return(self, n.obj)

\* Layout.__eq__(self, other), when its loop ends
Layout_eq(self, other) == Layout_eq_next(self, Layout_eq_step(other))

(* --------------------- Value (the bit-vector side) ---------------------- *)

\* a Value: bits [base, base + width) of the bit-vector a view is bound to;
\* part is TRUE for a Part, whose position is decided at run time
Value(base, width) ==
    [k |-> "value", base |-> base, width |-> width, signed |-> FALSE, part |-> FALSE]

\* None
None == [k |-> "none"]

\* slice(start, stop).indices(n), one bound of it
SliceIndex(i, n) ==
    IF i < 0 THEN (IF i + n < 0 THEN 0 ELSE i + n) ELSE (IF i > n THEN n ELSE i)

\* Slice(value, lo, hi)
Slice(value, lo, hi) ==
    IF lo > hi THEN Raise("IndexError") ELSE Ok(Value(value.base + lo, hi - lo))

\* value[start:stop]
Value_getitem(value, start, stop) ==
    Slice(value, SliceIndex(start, value.width), SliceIndex(stop, value.width))

\* value.word_select(offset, width)
Value_word_select(value, offset, width) ==
    CASE offset.t = "int" ->
            Value_getitem(value, offset.i * width, (offset.i + 1) * width)
      [] offset.t = "value" ->
            Ok([Value(value.base, width) EXCEPT !.part = TRUE])
      [] OTHER -> Raise("TypeError")

\* value.as_signed()
Value_as_signed(value) == [value EXCEPT !.signed = TRUE]

(* -------------------------------- View ---------------------------------- *)

\* View.__init__ from the value on, size being cast_layout.size
View_init_value(layout, value, cast_layout, size) ==
    IF size.exc # "" THEN Raise(size.exc)
    ELSE IF value = None
    THEN Ok([k |-> "view", orig |-> layout, layout |-> cast_layout,
             value |-> Value(0, size.val)])
    ELSE IF value.k # "value" THEN Raise("TypeError")
    ELSE IF value.width # size.val THEN Raise("ValueError")
    ELSE Ok([k |-> "view", orig |-> layout, layout |-> cast_layout, value |-> value])

\* View.__init__, c being Layout.cast(layout)
View_init_cast(layout, value, c) ==
    IF c.exc # "" THEN Raise("TypeError")
    ELSE View_init_value(layout, value, c.val, Layout_size(c.val))

\* View(layout, value); shape(value) of a schema class is View(shape, value)
View_init(layout, value) == View_init_cast(layout, value, Layout_cast(layout))

\* the tail of View.__getitem__: the value, v, wrapped as the shape directs
View_wrap(shape, v) ==
    IF v.exc # "" THEN v
    ELSE IF IsAggregateMeta(shape) \/ IsLayout(shape) THEN View_init(shape, v.val)
    ELSE IF Shape_cast(shape).val.signed THEN Ok(Value_as_signed(v.val))
    ELSE Ok(v.val)

\* View.__getitem__ on a layout that is no array, f being self.__layout[key]
View_getitem_field(self, f) ==
    IF f.exc # "" THEN f
    ELSE View_wrap(f.val.shape,
                   Value_getitem(self.value, f.val.offset, FieldEnd(f.val)))

\* View.__getitem__
View_getitem(self, key) ==
    IF self.layout.k = "array"
    THEN IF ~HasWidthAttr(self.layout.elem) THEN Raise("AttributeError")
         ELSE View_wrap(self.layout.elem,
                        Value_word_select(self.value, key, self.layout.elem.width))
    ELSE IF key.t = "value" THEN Raise("TypeError")
    ELSE View_getitem_field(self, Layout_getitem(self.layout, key))

\* name.startswith("_")
StartsWithUnderscore(name) == Len(name) > 0 /\ name[1] = "_"

\* the AttributeError of View.__getattr__ for a name that is no key, keys
\* being the iteration of the layout
View_no_field(keys) ==
    IF keys.exc # "" THEN Raise(keys.exc)
    ELSE [exc |-> "AttributeError",
          val |-> [msg |-> "does not have a field",
                   names |-> [i \in 1..Len(keys.val) |-> keys.val[i].key]]]

\* View.__getattr__ without the check of the reserved names
View_getattr_item_unreserved(self, name, item) ==
    IF item.exc = "KeyError" THEN View_no_field(Layout_iter(self.layout))
    ELSE item

\* View.__getattr__, item being the outcome of self[name]
View_getattr_item(self, name, item) ==
    IF item.exc = "KeyError" THEN View_no_field(Layout_iter(self.layout))
    ELSE IF item.exc # "" THEN item
    ELSE IF StartsWithUnderscore(name)
    THEN [exc |-> "AttributeError",
          val |-> [msg |-> "has a reserved name", names |-> <<>>]]
    ELSE item

\* View.__getattr__
View_getattr(self, name) ==
    View_getattr_item(self, name, View_getitem(self, StrKey(name)))

(* ------------------------------ inputs ---------------------------------- *)

\* the mappings of at most n items with distinct keys
Mappings(keys, vals, n) ==
    {Mapping(s) : s \in UNION {{t \in [1..l -> {Item(key, val) : key \in keys, val \in vals}] :
                                  \A i, j \in 1..l : i # j => t[i].key # t[j].key} :
                              l \in 0..n}}

Sizes == {PyInt(i) : i \in -1..MaxSize} \cup {PyOther}

\* a nested struct, two bits wide
InnerLayout == StructLayout(Mapping(<<Item(StrKey(<<"l", "o">>), unsigned(1)),
                                     Item(StrKey(<<"h", "i">>), signed(1))>>)).lay

MemberNames == {StrKey(<<"a">>), StrKey(<<"_", "b">>)}

MemberKeys == MemberNames \cup {IntKey(0)}

MemberShapes == {unsigned(w) : w \in 1..MaxWidth} \cup {InnerLayout, NotCastable}

MemberInputs ==
    Mappings(MemberKeys, MemberShapes, Cardinality(MemberNames)) \cup {NotMapping}

FieldNames == {StrKey(<<"x">>), IntKey(0)}

FieldKeys == FieldNames \cup {IntKey(-1), OtherKey}

FieldValues == {Field(unsigned(w), o) : w \in 1..MaxWidth, o \in 0..(MaxSize - 2)}
                   \cup {NotField}

FieldInputs ==
    Mappings(FieldKeys, FieldValues, Cardinality(FieldNames)) \cup {NotMapping}

\* the layouts that a constructor call returns
Constructed(results) == {r.lay : r \in {q \in results : q.exc = ""}}

(* ------------------- layouts mutated through setters -------------------- *)

Init ==
    /\ lay \in Constructed({StructLayout(m) : m \in MemberInputs})
            \cup Constructed({UnionLayout(m) : m \in MemberInputs})
            \cup Constructed({FlexibleLayout(s, f) : s \in Sizes, f \in FieldInputs})
    /\ op = [name |-> "__init__", exc |-> ""]

\* the object and the outcome after a setter, r being what the setter did
Sets(name, r) ==
    /\ lay' = r.lay
    /\ op' = [name |-> name, exc |-> r.exc]

StructSetMembers ==
    /\ lay.k = "struct"
    /\ \E members \in MemberInputs :
        Sets("members", StructLayout_members_setter(lay, members))

UnionSetMembers ==
    /\ lay.k = "union"
    /\ \E members \in MemberInputs :
        Sets("members", UnionLayout_members_setter(lay, members))

FlexibleSetSize ==
    /\ lay.k = "flex"
    /\ \E size \in Sizes :
        Sets("size", FlexibleLayout_size_setter(lay, size))

FlexibleSetFields ==
    /\ lay.k = "flex"
    /\ \E fields \in FieldInputs :
        Sets("fields", FlexibleLayout_fields_setter(lay, fields))

Next ==
    \/ StructSetMembers
    \/ UnionSetMembers
    \/ FlexibleSetSize
    \/ FlexibleSetFields

Spec == Init /\ [][Next]_vars


(* -------------------------- single calls -------------------------------- *)

\* a Struct subclass whose annotations are those of InnerLayout
Schema == Aggregate(1, InnerLayout)

CtorKeys == MemberNames \cup {StrKey(<<"c">>), IntKey(0)}

CtorShapes == {unsigned(w) : w \in 0..MaxWidth} \cup {signed(w) : w \in 1..MaxWidth}
                  \cup {InnerLayout, Schema, NotCastable}

CtorInputs == Mappings(CtorKeys, CtorShapes, Cardinality(CtorKeys) - 1) \cup {NotMapping}

LayoutShapes == {unsigned(w) : w \in 0..MaxWidth} \cup {signed(1), InnerLayout, Schema}

LayoutMembers == Mappings(MemberNames, LayoutShapes, Cardinality(MemberNames))

ElemShapes == {unsigned(1), signed(MaxWidth), InnerLayout, Schema}

PlacedKeys == {StrKey(<<"a">>), IntKey(0), IntKey(1)}

PlacedFields == {Field(unsigned(1), o) : o \in 0..(MaxLength - 1)}
                    \cup {Field(InnerLayout, 0)}

\* the layouts calls are made on
Layouts ==
    Constructed({StructLayout(m) : m \in LayoutMembers})
        \cup Constructed({UnionLayout(m) : m \in LayoutMembers})
        \cup Constructed({ArrayLayout(e, PyInt(n)) : e \in ElemShapes, n \in 0..MaxLength})
        \cup Constructed({FlexibleLayout(PyInt(n), f) :
                             n \in 0..MaxLength, f \in Mappings(PlacedKeys, PlacedFields, 2)})

\* what a layout is compared with, besides layouts
Others == {Wrapper(id) : id \in 1..6} \cup {Schema, unsigned(2), NotCastable}

IndexKeys == MemberNames \cup {StrKey(<<"c">>), StrKey(<<"_", "d">>), ValueKey, OtherKey}
                 \cup {IntKey(i) : i \in (0 - MaxLength - 1)..MaxLength}

\* the views calls are made on: over a layout or a schema, bound to a given
\* value or to a fresh Signal
Views ==
    {r.val : r \in {q \in {View_init(l, v) :
                              l \in Layouts \cup {Schema},
                              v \in {None} \cup {Value(b, w) : b \in 0..1, w \in 0..(2 * MaxSize)}} :
                       q.exc = ""}}

Call(name, arg) ==
    [name |-> name, pc |-> "call", arg |-> arg, cur |-> arg, res |-> Ok(<<>>)]

Return(res) == [op EXCEPT !.pc = "done", !.res = res]

CallInit ==
    \/ /\ lay = NoObject
       /\ op \in {Call("StructLayout", m) : m \in CtorInputs}
    \/ /\ lay = NoObject
       /\ op \in {Call("cast", obj) : obj \in Layouts \cup Others}
    \/ /\ lay \in Layouts
       /\ op \in {Call("eq", other) : other \in Layouts \cup Others}
    \/ /\ lay \in Layouts
       /\ op \in {Call("size", None)} \cup {Call("getitem", key) : key \in IndexKeys}
    \/ /\ lay = NoObject
       /\ op \in {Call("index", [view |-> v, key |-> key]) : v \in Views, key \in IndexKeys}
    \/ /\ lay = NoObject
       /\ op \in {Call("getattr", [view |-> v, name |-> key.s]) :
                     v \in Views, key \in {x \in IndexKeys : x.t = "str"}}

\* the call bound to what it constructed, r being the constructor's outcome
Constructs(r) ==
    /\ lay' = IF r.exc = "" THEN r.lay ELSE lay
    /\ op' = Return([exc |-> r.exc, val |-> <<>>])

CallStructLayout ==
    /\ op.name = "StructLayout" /\ op.pc = "call"
    /\ Constructs(StructLayout(op.arg))

\* the call after a pass n of the loop of Layout.cast
Cast_after(n) ==
    IF n.pc = "loop" THEN [op EXCEPT !.pc = "loop", !.cur = n.obj]
    ELSE [op EXCEPT !.pc = "done", !.cur = n.obj, !.res = Layout_cast_end(n)]

\* the call after a pass n of the loop of Layout.__eq__
Eq_after(n) ==
    IF n.pc = "loop" THEN [op EXCEPT !.pc = "loop", !.cur = n.obj]
    ELSE [op EXCEPT !.pc = "done", !.cur = n.obj, !.res = Layout_eq_return(lay, n.obj)]

\* one pass of the loop of Layout.cast; the call returns or raises when the
\* loop ends
CastStep ==
    /\ op.name = "cast" /\ op.pc \in {"call", "loop"}
    /\ op' = Cast_after(Layout_cast_step(op.cur))
    /\ UNCHANGED lay

\* one pass of the loop of Layout.__eq__; the return expression is evaluated
\* when the loop ends
EqStep ==
    /\ op.name = "eq" /\ op.pc \in {"call", "loop"}
    /\ op' = Eq_after(Layout_eq_step(op.cur))
    /\ UNCHANGED lay

CallSize ==
    /\ op.name = "size" /\ op.pc = "call"
    /\ op' = Return(Layout_size(lay))
    /\ UNCHANGED lay

CallGetitem ==
    /\ op.name = "getitem" /\ op.pc = "call"
    /\ op' = Return(Layout_getitem(lay, op.arg))
    /\ UNCHANGED lay

CallIndex ==
    /\ op.name = "index" /\ op.pc = "call"
    /\ op' = Return(View_getitem(op.arg.view, op.arg.key))
    /\ UNCHANGED lay

CallGetattr ==
    /\ op.name = "getattr" /\ op.pc = "call"
    /\ op' = Return(View_getattr(op.arg.view, op.arg.name))
    /\ UNCHANGED lay

CallNext ==
    \/ CallStructLayout
    \/ CastStep
    \/ EqStep
    \/ CallSize
    \/ CallGetitem
    \/ CallIndex
    \/ CallGetattr

CallSpec == CallInit /\ [][CallNext]_vars

\* a call in progress is run to its end
FairCallSpec == CallSpec /\ WF_vars(CastStep) /\ WF_vars(EqStep)

(* ------------------------------ claims ---------------------------------- *)

\* the call returned v
Returns(r, v) == r.exc = "" /\ r.val = v

ItemSet(items) == {items[i] : i \in 1..Len(items)}

\* what a caller can observe of a layout: its size and its (key, field) pairs
Observable(l) == [size |-> Layout_size(l), pairs |-> ItemSet(l.fields)]

\* C2: in every state reached from a constructed FlexibleLayout through
\* size and fields assignments, succeeding or failing, every field the
\* layout holds ends at or before the layout's size.
C2_FlexibleCoversFields ==
    lay.k = "flex" =>
        \A i \in 1..Len(lay.fields) : FieldEnd(lay.fields[i].val) <= lay.size

\* a size assignment that shrank a layout of two fields to the end of its
\* endmost field
C2_Witness ==
    /\ lay.k = "flex" /\ op.name = "size" /\ op.exc = ""
    /\ Len(lay.fields) = 2
    /\ FieldEnd(Endmost(lay.fields).val) = lay.size
    /\ lay.size < MaxSize

\* C3: a setter that fails leaves the observable state of the layout (its
\* size and its set of (key, field) pairs) as it was before the call.
C3_FailureIsAtomic ==
    [][op'.exc # "" => Observable(lay') = Observable(lay)]_vars

RECURSIVE SumWidths(_, _)

\* the sum of the widths of the first n shapes declared
SumWidths(items, n) ==
    IF n = 0 THEN 0 ELSE SumWidths(items, n - 1) + Shape_cast(items[n].val).val.width

\* C6: StructLayout(members) holds the declared members in declaration
\* order, the i-th at the offset that is the sum of the widths declared
\* before it, and its size is the sum of all the widths.
C6_StructSequential ==
    (op.name = "StructLayout" /\ op.pc = "done" /\ op.res.exc = "") =>
        /\ Len(lay.fields) = Len(op.arg.items)
        /\ \A i \in 1..Len(lay.fields) :
               /\ lay.fields[i].key = op.arg.items[i].key
               /\ lay.fields[i].val.shape = op.arg.items[i].val
               /\ lay.fields[i].val.offset = SumWidths(op.arg.items, i - 1)
        /\ Returns(Layout_size(lay), SumWidths(op.arg.items, Len(op.arg.items)))

\* a struct of three members, the second and the third after bits of the
\* ones before them
C6_Witness ==
    /\ op.name = "StructLayout" /\ op.pc = "done" /\ op.res.exc = ""
    /\ Len(lay.fields) = 3
    /\ lay.fields[2].val.offset > 0
    /\ lay.fields[3].val.offset > lay.fields[2].val.offset

\* the name -> shape members a struct was built from
Members(l) == {<<l.fields[i].key, l.fields[i].val.shape>> : i \in 1..Len(l.fields)}

EqOfStructs ==
    /\ op.name = "eq" /\ op.pc = "done"
    /\ lay.k = "struct" /\ op.arg.k = "struct"

\* C1 as stated: two StructLayouts built from the same set of name -> shape
\* members compare equal whatever the order of declaration, and a changed
\* width makes them unequal.
C1_OrderIgnored ==
    EqOfStructs =>
        /\ Members(lay) = Members(op.arg) => Returns(op.res, TRUE)
        /\ (Keys(lay.fields) = Keys(op.arg.fields) /\ Members(lay) # Members(op.arg))
               => Returns(op.res, FALSE)

\* C1 amended: two StructLayouts built from the same set of name -> shape
\* members compare equal exactly when every member has the same offset in
\* both (the offsets follow the order of declaration), and a changed shape
\* makes them unequal.
C1_EqualIffSameOffsets ==
    EqOfStructs =>
        /\ Members(lay) = Members(op.arg) =>
               Returns(op.res, \A key \in Keys(lay.fields) :
                                   DictGet(lay.fields, key).offset
                                       = DictGet(op.arg.fields, key).offset)
        /\ (Keys(lay.fields) = Keys(op.arg.fields)
                /\ \E key \in Keys(lay.fields) :
                       Field_width(DictGet(lay.fields, key))
                           # Field_width(DictGet(op.arg.fields, key)))
               => Returns(op.res, FALSE)

\* the same two members declared in the two orders, one of them not at the
\* same offset: the layouts compare unequal
C1_Witness ==
    /\ EqOfStructs
    /\ Len(lay.fields) = 2
    /\ Members(lay) = Members(op.arg)
    /\ lay.fields[1].key = op.arg.fields[2].key
    /\ Returns(op.res, FALSE)

GetattrOfMembers ==
    /\ op.name = "getattr" /\ op.pc = "done"
    /\ op.arg.view.layout.k \in {"struct", "union", "flex"}

Declared(view, name) == StrKey(name) \in Keys(view.layout.fields)

\* C8: on a view over a struct, union or flexible layout, view.name is
\* view[name] exactly when name is a declared key without a leading
\* underscore; a name that is no key raises the field-not-found error
\* naming every declared key; a declared key with a leading underscore
\* raises although view[name] succeeds.
C8_GetattrIsGetitem ==
    GetattrOfMembers =>
        LET view == op.arg.view
            name == op.arg.name
            item == View_getitem(view, StrKey(name))
        IN  /\ (Declared(view, name) /\ ~StartsWithUnderscore(name))
                   => (op.res = item /\ item.exc = "")
            /\ op.res.exc = "" => (Declared(view, name) /\ ~StartsWithUnderscore(name))
            /\ ~Declared(view, name) =>
                   /\ op.res.exc = "AttributeError"
                   /\ op.res.val.msg = "does not have a field"
                   /\ Len(op.res.val.names) = Len(view.layout.fields)
                   /\ {op.res.val.names[i] : i \in 1..Len(op.res.val.names)}
                          = Keys(view.layout.fields)
            /\ (Declared(view, name) /\ StartsWithUnderscore(name)) =>
                   /\ op.res.exc = "AttributeError"
                   /\ op.res.val.msg = "has a reserved name"
                   /\ item.exc = ""

\* a declared key with a leading underscore, asked for by name
C8_Witness ==
    /\ GetattrOfMembers
    /\ Declared(op.arg.view, op.arg.name)
    /\ StartsWithUnderscore(op.arg.name)
    /\ op.res.exc = "AttributeError"

\* C7: ArrayLayout(elem_shape, length)[key], w being the width of the
\* element shape and n the length: a key in [0, n) gives the element shape
\* at offset key * w, a key in [-n, 0) what key + n gives, any other int
\* raises KeyError, a key that is no int raises TypeError; the size is w * n
\* and every field returned ends within it.
C7_ArrayGetitem ==
    (op.name = "getitem" /\ op.pc = "done" /\ lay.k = "array") =>
        LET w == Shape_cast(lay.elem).val.width
            n == lay.length
            k == op.arg.i
        IN  /\ Returns(Layout_size(lay), w * n)
            /\ (op.arg.t = "int" /\ k \in 0..(n - 1))
                   => Returns(op.res, Field(lay.elem, k * w))
            /\ (op.arg.t = "int" /\ k \in (0 - n)..(0 - 1))
                   => Returns(op.res, Field(lay.elem, (k + n) * w))
            /\ (op.arg.t = "int" /\ ~(k \in (0 - n)..(n - 1))) => op.res.exc = "KeyError"
            /\ op.arg.t # "int" => op.res.exc = "TypeError"
            /\ op.res.exc = "" => FieldEnd(op.res.val) <= w * n

\* C9: L1 == L2 returns, and is true exactly when what L2 unwraps to is a
\* layout of the same size whose iteration gives the same key -> field
\* mapping; it is reflexive and symmetric between layouts, and false for
\* what does not unwrap to a layout.
C9_EqIsStructural ==
    (op.name = "eq" /\ op.pc = "done") =>
        /\ op.res.exc = ""
        /\ ~IsLayout(op.cur) => Returns(op.res, FALSE)
        /\ IsLayout(op.cur) =>
               Returns(op.res,
                       /\ Layout_size(lay).val = Layout_size(op.cur).val
                       /\ Dict_eq(Layout_iter(lay).val, Layout_iter(op.cur).val))
        /\ op.arg = lay => Returns(op.res, TRUE)
        /\ IsLayout(op.arg) => Returns(Layout_eq(op.arg, lay), op.res.val)

\* the bits a result of View.__getitem__ is bound to
ValueOf(r) == IF r.k = "view" THEN r.value ELSE r

IndexDone == op.name = "index" /\ op.pc = "done"

\* C5: view[k] of a view over an ArrayLayout and an int k is bound to the
\* bits of layout[k] when k is in [-length, length), and raises KeyError
\* for any other int; a Value as the key of a view over a layout that is
\* no array raises TypeError.
C5_StaticIndexThroughGet ==
    IndexDone =>
        LET view == op.arg.view
            key  == op.arg.key
            f    == Layout_getitem(view.layout, key)
        IN  /\ (view.layout.k = "array" /\ key.t = "int") =>
                   IF f.exc = ""
                   THEN /\ op.res.exc = ""
                        /\ ValueOf(op.res.val).base = view.value.base + f.val.offset
                        /\ ValueOf(op.res.val).width = Field_width(f.val)
                        /\ ~ValueOf(op.res.val).part
                   ELSE op.res.exc = "KeyError"
            /\ (view.layout.k # "array" /\ key.t = "value") => op.res.exc = "TypeError"

\* C10: view[key] of a key whose field has shape S: for a layout or a
\* schema S, a view whose layout equals S, bound to the bits of the field;
\* for a scalar S, the bits of the field, signed exactly when S is.
C10_NestedAccessComposes ==
    (IndexDone /\ op.arg.key.t \in {"int", "str"}
        /\ Layout_getitem(op.arg.view.layout, op.arg.key).exc = "") =>
        LET view == op.arg.view
            f    == Layout_getitem(view.layout, op.arg.key).val
        IN  /\ op.res.exc = ""
            /\ ValueOf(op.res.val).base = view.value.base + f.offset
            /\ ValueOf(op.res.val).width = Field_width(f)
            /\ IF IsLayout(f.shape) \/ IsAggregateMeta(f.shape)
               THEN /\ op.res.val.k = "view"
                    /\ op.res.val.orig = f.shape
                    /\ Returns(Layout_eq(op.res.val.layout, f.shape), TRUE)
                    /\ Returns(Layout_size(op.res.val.layout), op.res.val.value.width)
               ELSE op.res.val = [Value(view.value.base + f.offset, f.shape.width)
                                      EXCEPT !.signed = f.shape.signed]

\* C4: Layout.cast(obj) ends, returning a layout or raising TypeError.
C4_CastTerminates ==
    (op.name = "cast") ~> (op.pc = "done" /\ op.res.exc \in {"", "TypeError"})

====
